---- MODULE Spec2Model ----
(***************************************************************************)
(* Model of core/jni/android_view_DisplayEventReceiver.cpp: the native     *)
(* display event receiver that forwards vsync, hotplug, mode-changed and   *)
(* frame-rate-override events of the display event source to a weakly      *)
(* referenced observer of the managed runtime.                             *)
(*                                                                         *)
(* One receiver instance is modelled.  The functions of the file are       *)
(* actions and operators of the same name.  The base class                 *)
(* DisplayEventDispatcher, the managed DisplayEventReceiver object, the    *)
(* MessageQueue and the weak-reference lookup are not part of the file;    *)
(* they are modelled from the specification (Dispatcher_*, handleEvent,    *)
(* the control surface initialize/scheduleVsync/dispose/                   *)
(* getLatestVsyncEventData, GetReferent, raiseAndClearException).          *)
(***************************************************************************)
EXTENDS Integers, Sequences, FiniteSets, TLC

VARIABLES
    mReceiverPtr,               \* handle kept by the owning domain, 0 = none
    initCalled,                 \* initialize() has been called on this instance
    disposed,                   \* dispose() has fully returned
    observerLive,               \* referent of the observer weak reference
    bufferLive,                 \* referent of the event-data buffer weak reference
    buffer,                     \* the shared VsyncEventData object
    alive,                      \* the native receiver exists (not destroyed)
    strong,                     \* strong reference count of the native receiver
    mReceiverWeakGlobal,        \* global reference outstanding
    mVsyncEventDataWeakGlobal,  \* global reference outstanding
    registered,                 \* dispatcher registered with the event source / loop
    mWaitingForVsync,           \* dispatcher: a vsync request is armed
    pendingRequests,            \* event source: one-shot vsync requests outstanding
    nCalls,                     \* handler invocations
    nVsyncCalls,                \* onVsync invocations
    lastCall,                   \* the handler invocation made for the most recent event
    lastEvent,                  \* the most recent event that arrived from the source
    nEvents,                    \* events that arrived from the source
    nArmed,                     \* vsync requests accepted by the source
    lastOp,                     \* the most recent operation, with what it was called on
    raised,                     \* outcome handed to the loop's owner by the last dispatch
    thrown,                     \* outcome reported to the caller by the last control call
    latest,                     \* result of the last getLatestVsyncEventData()
    inflight                    \* the event the loop thread is dispatching, if any

vars ==
    <<mReceiverPtr, initCalled, disposed, observerLive, bufferLive, buffer, alive,
      strong, mReceiverWeakGlobal, mVsyncEventDataWeakGlobal, registered,
      mWaitingForVsync, pendingRequests, nCalls, nVsyncCalls, lastCall, lastEvent,
      nEvents, nArmed, lastOp, raised, thrown, latest, inflight>>

(***************************************************************************)
(* Bounds of the model.                                                    *)
(***************************************************************************)
\* VsyncEventData::kFrameTimelinesLength, scaled down
kFrameTimelinesLength ==
    2

MaxOverrides ==
    2

MaxEvents ==
    2

(***************************************************************************)
(* Values.                                                                 *)
(***************************************************************************)
NULL ==
    "NULL"

OK ==
    0

StatusSet ==
    {OK, -1}

Timestamps ==
    {100}

DisplayIds ==
    {7}

TimelineIdx ==
    0 .. (kFrameTimelinesLength - 1)

\* raw frame timeline number k of the event source
RawTimeline(k) ==
    [vsyncId |-> 10 + k, expectedPresentationTime |-> 1000 + k,
     deadlineTimestamp |-> 900 + k]

\* raw timeline arrays: one ascending, one descending
RawTimelineArrays ==
    { [i \in TimelineIdx |-> RawTimeline(i)],
      [i \in TimelineIdx |-> RawTimeline(kFrameTimelinesLength - 1 - i)] }

\* raw payloads of the event source; the index field is an integer the receiver
\* does not validate: the last index, and one past the last
RawVsyncEventData ==
    [preferredFrameTimelineIndex : {kFrameTimelinesLength - 1, kFrameTimelinesLength},
     frameInterval : {16666667},
     frameTimelines : RawTimelineArrays]

\* the answers of the event source to a query for the latest vsync data:
\* ascending timelines, the last index preferred
LatestVsyncEventData ==
    {d \in RawVsyncEventData :
         /\ d.preferredFrameTimelineIndex = kFrameTimelinesLength - 1
         /\ d.frameTimelines[0] = RawTimeline(0)}

\* override number k of the event source
RawOverride(k) ==
    [uid |-> 1000 + k, frameRateHz |-> 30 * k]

\* the override vectors of the source: the first n overrides in ascending and in
\* descending order of owner, n up to MaxOverrides
OverrideVectors ==
    UNION { { [i \in 1 .. n |-> RawOverride(i)],
              [i \in 1 .. n |-> RawOverride(MaxOverrides + 1 - i)] } :
            n \in 0 .. MaxOverrides }

\* the null reference of the managed runtime
JNull ==
    [obj |-> 0]

\* no result yet
NoResult ==
    [obj |-> -1]

NoCall ==
    [kind |-> "none"]

NoEvent ==
    [kind |-> "none"]

(***************************************************************************)
(* Managed objects.  An object is a record whose obj field is its          *)
(* identity.                                                               *)
(***************************************************************************)
\* the event-data buffer as the owning domain constructs it
InitialBuffer ==
    [obj |-> 1, arrayObj |-> 2, preferredFrameTimelineIndex |-> 0, frameInterval |-> 0,
     frameTimelines |->
        [i \in TimelineIdx |->
            [obj |-> 10 + i, vsyncId |-> -1, expectedPresentationTime |-> 0,
             deadline |-> 0]]]

\* FrameTimeline(long vsyncId, long expectedPresentationTime, long deadline)
NewFrameTimeline(id, vsyncId, expectedPresentationTime, deadline) ==
    [obj |-> id, vsyncId |-> vsyncId,
     expectedPresentationTime |-> expectedPresentationTime, deadline |-> deadline]

\* FrameRateOverride(int uid, float frameRateHz)
NewFrameRateOverride(id, uid, frameRateHz) ==
    [obj |-> id, uid |-> uid, frameRateHz |-> frameRateHz]

\* resolve a weak reference held through a global reference
GetReferent(weakGlobal, live) ==
    IF weakGlobal /\ live THEN "referent" ELSE NULL

\* MessageQueue::raiseAndClearException: hand a pending exception to the loop's owner
raiseAndClearException(pending, msg) ==
    IF pending THEN [exception |-> TRUE, msg |-> msg] ELSE [exception |-> FALSE]

NoException ==
    [exception |-> FALSE]

(***************************************************************************)
(* createJavaVsyncEventData: builds a new VsyncEventData object.           *)
(***************************************************************************)
RECURSIVE createFrameTimelineObjs(_, _, _)
createFrameTimelineObjs(frameTimelineObjs, vsyncEventData, i) ==
    IF i >= kFrameTimelinesLength THEN frameTimelineObjs
    ELSE LET frameTimeline == vsyncEventData.frameTimelines[i]
             frameTimelineObj ==
                 NewFrameTimeline(110 + i, frameTimeline.vsyncId,
                                  frameTimeline.expectedPresentationTime,
                                  frameTimeline.deadlineTimestamp)
         IN  createFrameTimelineObjs([frameTimelineObjs EXCEPT ![i] = frameTimelineObj],
                                     vsyncEventData, i + 1)

createJavaVsyncEventData(vsyncEventData) ==
    LET frameTimelineObjs ==
            createFrameTimelineObjs([i \in TimelineIdx |-> JNull], vsyncEventData, 0)
    IN  [obj |-> 101, arrayObj |-> 102,
         preferredFrameTimelineIndex |-> vsyncEventData.preferredFrameTimelineIndex,
         frameInterval |-> vsyncEventData.frameInterval,
         frameTimelines |-> frameTimelineObjs]

(***************************************************************************)
(* dispatchVsync.                                                          *)
(***************************************************************************)
\* a fill loop that writes the deadline and the presentation time the wrong way round
RECURSIVE fillFrameTimelines_SwapsFields(_, _, _)
fillFrameTimelines_SwapsFields(frameTimelinesObj, vsyncEventData, i) ==
    IF i >= kFrameTimelinesLength THEN frameTimelinesObj
    ELSE LET frameTimeline == vsyncEventData.frameTimelines[i]
         IN  fillFrameTimelines_SwapsFields(
                 [frameTimelinesObj EXCEPT
                     ![i].vsyncId = frameTimeline.vsyncId,
                     ![i].expectedPresentationTime = frameTimeline.deadlineTimestamp,
                     ![i].deadline = frameTimeline.expectedPresentationTime],
                 vsyncEventData, i + 1)

\* a fill loop that stops one entry early
RECURSIVE fillFrameTimelines_StopsEarly(_, _, _)
fillFrameTimelines_StopsEarly(frameTimelinesObj, vsyncEventData, i) ==
    IF i >= kFrameTimelinesLength - 1 THEN frameTimelinesObj
    ELSE LET frameTimeline == vsyncEventData.frameTimelines[i]
         IN  fillFrameTimelines_StopsEarly(
                 [frameTimelinesObj EXCEPT
                     ![i].vsyncId = frameTimeline.vsyncId,
                     ![i].expectedPresentationTime = frameTimeline.expectedPresentationTime,
                     ![i].deadline = frameTimeline.deadlineTimestamp],
                 vsyncEventData, i + 1)

\* the loop of dispatchVsync that sets the fields of each FrameTimeline object
RECURSIVE fillFrameTimelines(_, _, _)
fillFrameTimelines(frameTimelinesObj, vsyncEventData, i) ==
    IF i >= kFrameTimelinesLength THEN frameTimelinesObj
    ELSE LET frameTimeline == vsyncEventData.frameTimelines[i]
         IN  fillFrameTimelines(
                 [frameTimelinesObj EXCEPT
                     ![i].vsyncId = frameTimeline.vsyncId,
                     ![i].expectedPresentationTime = frameTimeline.expectedPresentationTime,
                     ![i].deadline = frameTimeline.deadlineTimestamp],
                 vsyncEventData, i + 1)

\* a fill that stores newly created FrameTimeline objects in the array
fillVsyncEventDataObj_NewTimelines(vsyncEventDataObj, vsyncEventData) ==
    [vsyncEventDataObj EXCEPT
        !.preferredFrameTimelineIndex = vsyncEventData.preferredFrameTimelineIndex,
        !.frameInterval = vsyncEventData.frameInterval,
        !.frameTimelines = createFrameTimelineObjs(@, vsyncEventData, 0)]

\* the in-place fill of the buffer object
fillVsyncEventDataObj(vsyncEventDataObj, vsyncEventData) ==
    [vsyncEventDataObj EXCEPT
        !.preferredFrameTimelineIndex = vsyncEventData.preferredFrameTimelineIndex,
        !.frameInterval = vsyncEventData.frameInterval,
        !.frameTimelines = fillFrameTimelines(@, vsyncEventData, 0)]

\* a dispatchVsync that fills the buffer before it looks at the observer
dispatchVsync_FillsFirst(timestamp, displayId, count, vsyncEventData, throws) ==
    LET receiverObj == GetReferent(mReceiverWeakGlobal, observerLive)
        vsyncEventDataObj == GetReferent(mVsyncEventDataWeakGlobal, bufferLive)
    IN  /\ buffer' = IF vsyncEventDataObj # NULL
                     THEN fillVsyncEventDataObj(buffer, vsyncEventData)
                     ELSE buffer
        /\ IF receiverObj # NULL /\ vsyncEventDataObj # NULL
           THEN /\ nCalls' = nCalls + 1
                /\ nVsyncCalls' = nVsyncCalls + 1
                /\ lastCall' = [kind |-> "onVsync", threw |-> throws,
                                timestamp |-> timestamp,
                                displayId |-> displayId, count |-> count,
                                data |-> buffer']
                /\ raised' = raiseAndClearException(throws, "dispatchVsync")
           ELSE /\ UNCHANGED <<nCalls, nVsyncCalls>>
                /\ lastCall' = NoCall
                /\ raised' = raiseAndClearException(FALSE, "dispatchVsync")

\* a dispatchVsync that looks at the observer only
dispatchVsync_ObserverOnly(timestamp, displayId, count, vsyncEventData, throws) ==
    LET receiverObj == GetReferent(mReceiverWeakGlobal, observerLive)
        vsyncEventDataObj == GetReferent(mVsyncEventDataWeakGlobal, bufferLive)
    IN  IF receiverObj # NULL
        THEN /\ buffer' = IF vsyncEventDataObj # NULL
                          THEN fillVsyncEventDataObj(buffer, vsyncEventData)
                          ELSE buffer
             /\ nCalls' = nCalls + 1
             /\ nVsyncCalls' = nVsyncCalls + 1
             /\ lastCall' = [kind |-> "onVsync", threw |-> throws,
                             timestamp |-> timestamp,
                             displayId |-> displayId, count |-> count,
                             data |-> buffer']
             /\ raised' = raiseAndClearException(throws, "dispatchVsync")
        ELSE /\ UNCHANGED <<buffer, nCalls, nVsyncCalls>>
             /\ lastCall' = NoCall
             /\ raised' = raiseAndClearException(FALSE, "dispatchVsync")

\* a dispatchVsync that invokes the handler twice
dispatchVsync_CallsTwice(timestamp, displayId, count, vsyncEventData, throws) ==
    LET receiverObj == GetReferent(mReceiverWeakGlobal, observerLive)
        vsyncEventDataObj == GetReferent(mVsyncEventDataWeakGlobal, bufferLive)
    IN  IF receiverObj # NULL /\ vsyncEventDataObj # NULL
        THEN /\ buffer' = fillVsyncEventDataObj(buffer, vsyncEventData)
             /\ nCalls' = nCalls + 2
             /\ nVsyncCalls' = nVsyncCalls + 2
             /\ lastCall' = [kind |-> "onVsync", threw |-> throws,
                             timestamp |-> timestamp,
                             displayId |-> displayId, count |-> count,
                             data |-> buffer']
             /\ raised' = raiseAndClearException(throws, "dispatchVsync")
        ELSE /\ UNCHANGED <<buffer, nCalls, nVsyncCalls>>
             /\ lastCall' = NoCall
             /\ raised' = raiseAndClearException(FALSE, "dispatchVsync")

\* a dispatchVsync that invokes the handler before it fills the buffer
dispatchVsync_CallsBeforeFill(timestamp, displayId, count, vsyncEventData, throws) ==
    LET receiverObj == GetReferent(mReceiverWeakGlobal, observerLive)
        vsyncEventDataObj == GetReferent(mVsyncEventDataWeakGlobal, bufferLive)
    IN  IF receiverObj # NULL /\ vsyncEventDataObj # NULL
        THEN /\ nCalls' = nCalls + 1
             /\ nVsyncCalls' = nVsyncCalls + 1
             /\ lastCall' = [kind |-> "onVsync", threw |-> throws,
                             timestamp |-> timestamp,
                             displayId |-> displayId, count |-> count,
                             data |-> buffer]
             /\ buffer' = fillVsyncEventDataObj(buffer, vsyncEventData)
             /\ raised' = raiseAndClearException(throws, "dispatchVsync")
        ELSE /\ UNCHANGED <<buffer, nCalls, nVsyncCalls>>
             /\ lastCall' = NoCall
             /\ raised' = raiseAndClearException(FALSE, "dispatchVsync")

\* throws: whether the observer's handler fails (recorded with the invocation)
dispatchVsync(timestamp, displayId, count, vsyncEventData, throws) ==
    LET receiverObj == GetReferent(mReceiverWeakGlobal, observerLive)
        vsyncEventDataObj == GetReferent(mVsyncEventDataWeakGlobal, bufferLive)
    IN  IF receiverObj # NULL /\ vsyncEventDataObj # NULL
        THEN /\ buffer' = fillVsyncEventDataObj(buffer, vsyncEventData)
             /\ nCalls' = nCalls + 1
             /\ nVsyncCalls' = nVsyncCalls + 1
             /\ lastCall' = [kind |-> "onVsync", threw |-> throws,
                             timestamp |-> timestamp,
                             displayId |-> displayId, count |-> count,
                             data |-> buffer']
             /\ raised' = raiseAndClearException(throws, "dispatchVsync")
        ELSE /\ UNCHANGED <<buffer, nCalls, nVsyncCalls>>
             /\ lastCall' = NoCall
             /\ raised' = raiseAndClearException(FALSE, "dispatchVsync")

\* a dispatchHotplug that does not look at the observer reference
dispatchHotplug_NoLivenessCheck(timestamp, displayId, connected, throws) ==
    /\ nCalls' = nCalls + 1
    /\ lastCall' = [kind |-> "onHotplug", threw |-> throws,
                    timestamp |-> timestamp,
                    displayId |-> displayId, connected |-> connected]
    /\ raised' = raiseAndClearException(throws, "dispatchHotplug")
    /\ UNCHANGED <<buffer, nVsyncCalls>>

\* a dispatchHotplug that leaves a failure of the handler where it is
dispatchHotplug_KeepsException(timestamp, displayId, connected, throws) ==
    LET receiverObj == GetReferent(mReceiverWeakGlobal, observerLive)
    IN  /\ IF receiverObj # NULL
           THEN /\ nCalls' = nCalls + 1
                /\ lastCall' = [kind |-> "onHotplug", threw |-> throws,
                                timestamp |-> timestamp,
                                displayId |-> displayId, connected |-> connected]
           ELSE /\ UNCHANGED nCalls
                /\ lastCall' = NoCall
        /\ raised' = NoException
        /\ UNCHANGED <<buffer, nVsyncCalls>>

dispatchHotplug(timestamp, displayId, connected, throws) ==
    LET receiverObj == GetReferent(mReceiverWeakGlobal, observerLive)
    IN  /\ IF receiverObj # NULL
           THEN /\ nCalls' = nCalls + 1
                /\ lastCall' = [kind |-> "onHotplug", threw |-> throws,
                                timestamp |-> timestamp,
                                displayId |-> displayId, connected |-> connected]
                /\ raised' = raiseAndClearException(throws, "dispatchHotplug")
           ELSE /\ UNCHANGED nCalls
                /\ lastCall' = NoCall
                /\ raised' = raiseAndClearException(FALSE, "dispatchHotplug")
        /\ UNCHANGED <<buffer, nVsyncCalls>>

\* a dispatchModeChanged that also wants the event-data buffer to be live
dispatchModeChanged_NeedsBuffer(timestamp, displayId, modeId, renderPeriod, throws) ==
    LET receiverObj == GetReferent(mReceiverWeakGlobal, observerLive)
        vsyncEventDataObj == GetReferent(mVsyncEventDataWeakGlobal, bufferLive)
    IN  /\ IF receiverObj # NULL /\ vsyncEventDataObj # NULL
           THEN /\ nCalls' = nCalls + 1
                /\ lastCall' = [kind |-> "onModeChanged", threw |-> throws,
                                timestamp |-> timestamp,
                                displayId |-> displayId, modeId |-> modeId,
                                renderPeriod |-> renderPeriod]
                /\ raised' = raiseAndClearException(throws, "dispatchModeChanged")
           ELSE /\ UNCHANGED nCalls
                /\ lastCall' = NoCall
                /\ raised' = raiseAndClearException(FALSE, "dispatchModeChanged")
        /\ UNCHANGED <<buffer, nVsyncCalls>>

dispatchModeChanged(timestamp, displayId, modeId, renderPeriod, throws) ==
    LET receiverObj == GetReferent(mReceiverWeakGlobal, observerLive)
    IN  /\ IF receiverObj # NULL
           THEN /\ nCalls' = nCalls + 1
                /\ lastCall' = [kind |-> "onModeChanged", threw |-> throws,
                                timestamp |-> timestamp,
                                displayId |-> displayId, modeId |-> modeId,
                                renderPeriod |-> renderPeriod]
                /\ raised' = raiseAndClearException(throws, "dispatchModeChanged")
           ELSE /\ UNCHANGED nCalls
                /\ lastCall' = NoCall
                /\ raised' = raiseAndClearException(FALSE, "dispatchModeChanged")
        /\ UNCHANGED <<buffer, nVsyncCalls>>

\* a loop that stores one object, created from the first override, at every
\* position
RECURSIVE fillFrameRateOverrideArray_OneObject(_, _, _)
fillFrameRateOverrideArray_OneObject(frameRateOverrideArray, overrides, i) ==
    IF i >= Len(overrides) THEN frameRateOverrideArray
    ELSE LET FrameRateOverrideObject ==
                 NewFrameRateOverride(201, overrides[1].uid, overrides[1].frameRateHz)
         IN  fillFrameRateOverrideArray_OneObject(
                 [frameRateOverrideArray EXCEPT ![i] = FrameRateOverrideObject],
                 overrides, i + 1)

\* the loop of dispatchFrameRateOverrides; overrides is 1-indexed here, the
\* array 0-indexed as in the source
RECURSIVE fillFrameRateOverrideArray(_, _, _)
fillFrameRateOverrideArray(frameRateOverrideArray, overrides, i) ==
    IF i >= Len(overrides) THEN frameRateOverrideArray
    ELSE LET FrameRateOverrideObject ==
                 NewFrameRateOverride(201 + i, overrides[i + 1].uid,
                                      overrides[i + 1].frameRateHz)
         IN  fillFrameRateOverrideArray(
                 [frameRateOverrideArray EXCEPT ![i] = FrameRateOverrideObject],
                 overrides, i + 1)

\* an array of the fixed frame-timeline length instead of the override count
newFrameRateOverrideArray_FixedLength(overrides) ==
    LET frameRateOverrideInitObject == NewFrameRateOverride(200, 0, 0)
        frameRateOverrideArray ==
            [i \in 0 .. (kFrameTimelinesLength - 1) |-> frameRateOverrideInitObject]
    IN  [obj |-> 300,
         elems |-> [i \in 0 .. (kFrameTimelinesLength - 1) |->
                       IF i < Len(overrides)
                       THEN NewFrameRateOverride(201 + i, overrides[i + 1].uid,
                                                 overrides[i + 1].frameRateHz)
                       ELSE frameRateOverrideArray[i]]]

\* the array object handed to the observer
newFrameRateOverrideArray(overrides) ==
    LET frameRateOverrideInitObject == NewFrameRateOverride(200, 0, 0)
        frameRateOverrideArray ==
            [i \in 0 .. (Len(overrides) - 1) |-> frameRateOverrideInitObject]
    IN  [obj |-> 300,
         elems |-> fillFrameRateOverrideArray(frameRateOverrideArray, overrides, 0)]

dispatchFrameRateOverrides(timestamp, displayId, overrides, throws) ==
    LET receiverObj == GetReferent(mReceiverWeakGlobal, observerLive)
    IN  /\ IF receiverObj # NULL
           THEN /\ nCalls' = nCalls + 1
                /\ lastCall' = [kind |-> "onFrameRateOverrides", threw |-> throws,
                                timestamp |-> timestamp,
                                displayId |-> displayId,
                                overrides |-> newFrameRateOverrideArray(overrides)]
                /\ raised' = raiseAndClearException(throws, "dispatchModeChanged")
           ELSE /\ UNCHANGED nCalls
                /\ lastCall' = NoCall
                /\ raised' = raiseAndClearException(FALSE, "dispatchModeChanged")
        /\ UNCHANGED <<buffer, nVsyncCalls>>

\* a dispatchNullEvent that reports the event to the observer as a vsync
dispatchNullEvent_CallsOnVsync(timestamp, displayId) ==
    LET receiverObj == GetReferent(mReceiverWeakGlobal, observerLive)
    IN  /\ IF receiverObj # NULL
           THEN /\ nCalls' = nCalls + 1
                /\ nVsyncCalls' = nVsyncCalls + 1
                /\ lastCall' = [kind |-> "onVsync", threw |-> FALSE,
                                timestamp |-> timestamp, displayId |-> displayId,
                                count |-> 0, data |-> buffer]
           ELSE /\ UNCHANGED <<nCalls, nVsyncCalls>>
                /\ lastCall' = NoCall
        /\ raised' = NoException
        /\ UNCHANGED buffer

\* the body is empty: no handler is invoked for this event and nothing is raised
\* (lastCall and raised describe the most recent event)
dispatchNullEvent(timestamp, displayId) ==
    /\ UNCHANGED <<buffer, nCalls, nVsyncCalls>>
    /\ lastCall' = NoCall
    /\ raised' = NoException

(***************************************************************************)
(* DisplayEventDispatcher, the base class of the receiver.                 *)
(***************************************************************************)
\* initialize(): registers with the event source unless it rejects (status)
Dispatcher_initialize(status) ==
    [status |-> status, registered |-> (status = OK)]

\* dispose(): unregisters from the event source
Dispatcher_dispose ==
    [registered |-> FALSE]

\* scheduleVsync(): arms one vsync request unless one is armed already;
\* status is the event source's answer to the request
Dispatcher_scheduleVsync(status) ==
    IF ~mWaitingForVsync
    THEN IF status # OK
         THEN [status |-> status, mWaitingForVsync |-> mWaitingForVsync,
               pendingRequests |-> pendingRequests, armed |-> 0]
         ELSE [status |-> OK, mWaitingForVsync |-> TRUE,
               pendingRequests |-> pendingRequests + 1, armed |-> 1]
    ELSE [status |-> OK, mWaitingForVsync |-> mWaitingForVsync,
          pendingRequests |-> pendingRequests, armed |-> 0]

\* getLatestVsyncEventData(): the event source's answer to the query
Dispatcher_getLatestVsyncEventData(status, data) ==
    [status |-> status, vsync |-> data]

(***************************************************************************)
(* Construction and destruction of the native receiver.                    *)
(***************************************************************************)
\* the global references after the constructor ran
Constructor ==
    [mReceiverWeakGlobal |-> TRUE, mVsyncEventDataWeakGlobal |-> TRUE]

\* the global references after the destructor ran
Destructor(refs) ==
    [mReceiverWeakGlobal |-> FALSE,
     mVsyncEventDataWeakGlobal |-> refs.mVsyncEventDataWeakGlobal]

(***************************************************************************)
(* The native methods.                                                     *)
(***************************************************************************)
\* a nativeInit that goes on after a failed initialize(): it retains a reference
\* and returns the receiver
nativeInit_KeepsFailedReceiver(messageQueue, status) ==
    IF messageQueue = NULL
    THEN /\ thrown' = "MessageQueue is not initialized."
         /\ mReceiverPtr' = 0
         /\ UNCHANGED <<alive, strong, mReceiverWeakGlobal, mVsyncEventDataWeakGlobal,
                        registered>>
    ELSE LET refs == Constructor
             init == Dispatcher_initialize(status)
         IN  /\ thrown' = IF init.status # OK
                          THEN "Failed to initialize display event receiver."
                          ELSE "none"
             /\ mReceiverPtr' = 1
             /\ alive' = TRUE
             /\ strong' = IF init.registered THEN 2 ELSE 1
             /\ mReceiverWeakGlobal' = refs.mReceiverWeakGlobal
             /\ mVsyncEventDataWeakGlobal' = refs.mVsyncEventDataWeakGlobal
             /\ registered' = init.registered

\* messageQueue: NULL or the queue; status: the outcome of initialize()
nativeInit(messageQueue, status) ==
    IF messageQueue = NULL
    THEN /\ thrown' = "MessageQueue is not initialized."
         /\ mReceiverPtr' = 0
         /\ UNCHANGED <<alive, strong, mReceiverWeakGlobal, mVsyncEventDataWeakGlobal,
                        registered>>
    ELSE LET refs == Constructor
             init == Dispatcher_initialize(status)
         IN  IF init.status # OK
             THEN \* the only strong reference goes out of scope: destroyed
                  /\ thrown' = "Failed to initialize display event receiver."
                  /\ mReceiverPtr' = 0
                  /\ alive' = FALSE
                  /\ strong' = 0
                  /\ mReceiverWeakGlobal' = Destructor(refs).mReceiverWeakGlobal
                  /\ mVsyncEventDataWeakGlobal' = Destructor(refs).mVsyncEventDataWeakGlobal
                  /\ registered' = FALSE
             ELSE \* one reference held by the loop, one retained for the handle
                  /\ thrown' = "none"
                  /\ mReceiverPtr' = 1
                  /\ alive' = TRUE
                  /\ strong' = 2
                  /\ mReceiverWeakGlobal' = refs.mReceiverWeakGlobal
                  /\ mVsyncEventDataWeakGlobal' = refs.mVsyncEventDataWeakGlobal
                  /\ registered' = init.registered

\* a dispose() that does not delegate to the dispatcher
NativeDisplayEventReceiver_dispose_NoDelegate ==
    [registered |-> registered]

\* NativeDisplayEventReceiver::dispose: delegates to the dispatcher
NativeDisplayEventReceiver_dispose ==
    Dispatcher_dispose

\* a release that drops the retained reference without calling dispose()
release_WithoutDispose ==
    /\ registered' = registered
    /\ strong' = strong - 1
    /\ alive' = (strong - 1 > 0)
    /\ mReceiverWeakGlobal' = (IF strong - 1 > 0 THEN mReceiverWeakGlobal ELSE FALSE)
    /\ UNCHANGED mVsyncEventDataWeakGlobal

\* a release that deletes the receiver instead of dropping its own reference
release_DeletesReceiver ==
    LET afterDispose == NativeDisplayEventReceiver_dispose
        refs == [mReceiverWeakGlobal |-> mReceiverWeakGlobal,
                 mVsyncEventDataWeakGlobal |-> mVsyncEventDataWeakGlobal]
    IN  /\ registered' = afterDispose.registered
        /\ strong' = 0
        /\ alive' = FALSE
        /\ mReceiverWeakGlobal' = Destructor(refs).mReceiverWeakGlobal
        /\ mVsyncEventDataWeakGlobal' = Destructor(refs).mVsyncEventDataWeakGlobal

\* release: the finalizer of the handle
release ==
    LET afterDispose == NativeDisplayEventReceiver_dispose
        \* unregistering drops the loop's reference, decStrong the retained one
        count == (IF registered /\ ~afterDispose.registered THEN strong - 1 ELSE strong) - 1
        refs == [mReceiverWeakGlobal |-> mReceiverWeakGlobal,
                 mVsyncEventDataWeakGlobal |-> mVsyncEventDataWeakGlobal]
    IN  /\ registered' = afterDispose.registered
        /\ strong' = count
        /\ alive' = (count > 0)
        /\ mReceiverWeakGlobal' =
               IF count > 0 THEN mReceiverWeakGlobal ELSE Destructor(refs).mReceiverWeakGlobal
        /\ mVsyncEventDataWeakGlobal' =
               IF count > 0 THEN mVsyncEventDataWeakGlobal
               ELSE Destructor(refs).mVsyncEventDataWeakGlobal

\* a nativeScheduleVsync that requests the next vsync from the source itself
\* instead of going through scheduleVsync()
nativeScheduleVsync_RequestsDirectly(status) ==
    /\ mWaitingForVsync' = (IF status = OK THEN TRUE ELSE mWaitingForVsync)
    /\ pendingRequests' = (IF status = OK THEN pendingRequests + 1 ELSE pendingRequests)
    /\ nArmed' = (IF status = OK THEN nArmed + 1 ELSE nArmed)
    /\ thrown' = IF status # OK
                 THEN "Failed to schedule next vertical sync pulse."
                 ELSE "none"

\* a nativeScheduleVsync that ignores the status of scheduleVsync()
nativeScheduleVsync_IgnoresStatus(status) ==
    LET r == Dispatcher_scheduleVsync(status)
    IN  /\ mWaitingForVsync' = r.mWaitingForVsync
        /\ pendingRequests' = r.pendingRequests
        /\ nArmed' = nArmed + r.armed
        /\ thrown' = "none"

nativeScheduleVsync(status) ==
    LET r == Dispatcher_scheduleVsync(status)
    IN  /\ mWaitingForVsync' = r.mWaitingForVsync
        /\ pendingRequests' = r.pendingRequests
        /\ nArmed' = nArmed + r.armed
        /\ thrown' = IF r.status # OK
                     THEN "Failed to schedule next vertical sync pulse."
                     ELSE "none"

\* a nativeGetLatestVsyncEventData that converts whatever the query left behind
nativeGetLatestVsyncEventData_IgnoresStatus(status, data) ==
    LET r == Dispatcher_getLatestVsyncEventData(status, data)
    IN  latest' = createJavaVsyncEventData(r.vsync)

nativeGetLatestVsyncEventData(status, data) ==
    LET r == Dispatcher_getLatestVsyncEventData(status, data)
    IN  latest' = IF r.status # OK THEN JNull ELSE createJavaVsyncEventData(r.vsync)

(***************************************************************************)
(* The control surface of the owning domain.                               *)
(***************************************************************************)
initialize ==
    /\ ~initCalled
    /\ initCalled' = TRUE
    /\ \E messageQueue \in {NULL, "queue"}, status \in StatusSet :
           /\ nativeInit(messageQueue, status)
           /\ lastOp' = [name |-> "initialize", messageQueue |-> messageQueue,
                         status |-> status]
    /\ UNCHANGED <<disposed, observerLive, bufferLive, buffer, mWaitingForVsync,
                   pendingRequests, nCalls, nVsyncCalls, lastCall, lastEvent, nEvents,
                   nArmed, raised, latest, inflight>>

scheduleVsync ==
    /\ initCalled
    /\ IF mReceiverPtr = 0
       THEN \* no native receiver: a warning is logged
            /\ UNCHANGED <<mWaitingForVsync, pendingRequests, nArmed, thrown>>
            /\ lastOp' = [name |-> "scheduleVsync", handle |-> mReceiverPtr,
                          wasArmed |-> mWaitingForVsync, rejected |-> FALSE,
                          thrownBefore |-> thrown]
       ELSE \E status \in StatusSet :
                /\ nativeScheduleVsync(status)
                \* rejected: the source was asked and refused the request
                /\ lastOp' = [name |-> "scheduleVsync", handle |-> mReceiverPtr,
                              wasArmed |-> mWaitingForVsync,
                              rejected |-> (~mWaitingForVsync /\ status # OK),
                              thrownBefore |-> thrown]
    /\ UNCHANGED <<mReceiverPtr, initCalled, disposed, observerLive, bufferLive, buffer,
                   alive, strong, mReceiverWeakGlobal, mVsyncEventDataWeakGlobal,
                   registered, nCalls, nVsyncCalls, lastCall, lastEvent, nEvents,
                   raised, latest, inflight>>

getLatestVsyncEventData ==
    /\ mReceiverPtr # 0
    /\ \E status \in StatusSet, data \in LatestVsyncEventData :
           /\ nativeGetLatestVsyncEventData(status, data)
           \* hadData: the previous query had returned an object
           /\ lastOp' = [name |-> "getLatestVsyncEventData", status |-> status,
                         data |-> data,
                         hadData |-> (latest.obj \notin {JNull.obj, NoResult.obj})]
    /\ UNCHANGED <<mReceiverPtr, initCalled, disposed, observerLive, bufferLive, buffer,
                   alive, strong, mReceiverWeakGlobal, mVsyncEventDataWeakGlobal,
                   registered, mWaitingForVsync, pendingRequests, nCalls, nVsyncCalls,
                   lastCall, lastEvent, nEvents, nArmed, raised, thrown, inflight>>

dispose ==
    /\ initCalled
    /\ lastOp' = [name |-> "dispose", wasDisposed |-> disposed]
    /\ disposed' = TRUE
    /\ mReceiverPtr' = 0
    /\ IF mReceiverPtr # 0
       THEN release
       ELSE UNCHANGED <<alive, strong, mReceiverWeakGlobal, mVsyncEventDataWeakGlobal,
                        registered>>
    /\ UNCHANGED <<initCalled, observerLive, bufferLive, buffer, mWaitingForVsync,
                   pendingRequests, nCalls, nVsyncCalls, lastCall, lastEvent, nEvents,
                   nArmed, raised, thrown, latest, inflight>>

(***************************************************************************)
(* The event source and the dispatch loop.                                 *)
(***************************************************************************)
\* an event reaches the receiver's callback only while it is registered
Dispatched ==
    registered /\ alive

Arrives(event) ==
    /\ initCalled
    /\ nEvents < MaxEvents
    /\ nEvents' = nEvents + 1
    \* afterFailure: the dispatch before this one handed a failure to the loop
    /\ lastEvent' = [f \in DOMAIN event \cup {"afterFailure"} |->
                         IF f = "afterFailure" THEN raised.exception
                         ELSE IF f = "dispatched" THEN Dispatched
                         ELSE event[f]]
    /\ lastOp' = [name |-> "event"]

\* an event that reaches no callback: nothing is invoked, nothing is raised
Dropped ==
    /\ UNCHANGED <<buffer, nCalls, nVsyncCalls>>
    /\ lastCall' = NoCall
    /\ raised' = NoException

EventUnchanged ==
    UNCHANGED <<mReceiverPtr, initCalled, disposed, observerLive, bufferLive, alive,
                strong, mReceiverWeakGlobal, mVsyncEventDataWeakGlobal, registered,
                nArmed, thrown, latest, inflight>>

\* the source emits a vsync only for an outstanding request
SourceVsync ==
    /\ pendingRequests > 0
    /\ \E timestamp \in Timestamps, displayId \in DisplayIds,
          vsyncEventData \in RawVsyncEventData, throws \in BOOLEAN :
           /\ Arrives([kind |-> "Vsync", timestamp |-> timestamp,
                       displayId |-> displayId, count |-> 1,
                       vsyncEventData |-> vsyncEventData, dispatched |-> FALSE])
           /\ pendingRequests' = pendingRequests - 1
           /\ IF Dispatched
              THEN /\ mWaitingForVsync' = FALSE
                   /\ dispatchVsync(timestamp, displayId, 1, vsyncEventData, throws)
              ELSE /\ Dropped
                   /\ UNCHANGED mWaitingForVsync
    /\ EventUnchanged

SourceHotplug ==
    /\ \E timestamp \in Timestamps, displayId \in DisplayIds,
          connected \in BOOLEAN, throws \in BOOLEAN :
           /\ Arrives([kind |-> "Hotplug", timestamp |-> timestamp,
                       displayId |-> displayId, connected |-> connected,
                       dispatched |-> FALSE])
           /\ IF Dispatched
              THEN dispatchHotplug(timestamp, displayId, connected, throws)
              ELSE Dropped
    /\ UNCHANGED <<mWaitingForVsync, pendingRequests>>
    /\ EventUnchanged

SourceModeChanged ==
    /\ \E timestamp \in Timestamps, displayId \in DisplayIds, throws \in BOOLEAN :
           /\ Arrives([kind |-> "ModeChanged", timestamp |-> timestamp,
                       displayId |-> displayId, modeId |-> 3,
                       renderPeriod |-> 8333333, dispatched |-> FALSE])
           /\ IF Dispatched
              THEN dispatchModeChanged(timestamp, displayId, 3, 8333333, throws)
              ELSE Dropped
    /\ UNCHANGED <<mWaitingForVsync, pendingRequests>>
    /\ EventUnchanged

SourceFrameRateOverrides ==
    /\ \E timestamp \in Timestamps, displayId \in DisplayIds,
          overrides \in OverrideVectors, throws \in BOOLEAN :
           /\ Arrives([kind |-> "FrameRateOverrides", timestamp |-> timestamp,
                       displayId |-> displayId, overrides |-> overrides,
                       dispatched |-> FALSE])
           /\ IF Dispatched
              THEN dispatchFrameRateOverrides(timestamp, displayId, overrides, throws)
              ELSE Dropped
    /\ UNCHANGED <<mWaitingForVsync, pendingRequests>>
    /\ EventUnchanged

SourceNullEvent ==
    /\ \E timestamp \in Timestamps, displayId \in DisplayIds :
           /\ Arrives([kind |-> "NullEvent", timestamp |-> timestamp,
                       displayId |-> displayId, dispatched |-> FALSE])
           /\ IF Dispatched
              THEN dispatchNullEvent(timestamp, displayId)
              ELSE Dropped
    /\ UNCHANGED <<mWaitingForVsync, pendingRequests>>
    /\ EventUnchanged

(***************************************************************************)
(* The owning domain's garbage collector.                                  *)
(***************************************************************************)
CollectObserver ==
    /\ observerLive
    /\ observerLive' = FALSE
    /\ lastOp' = [name |-> "collect"]
    /\ UNCHANGED <<mReceiverPtr, initCalled, disposed, bufferLive, buffer, alive, strong,
                   mReceiverWeakGlobal, mVsyncEventDataWeakGlobal, registered,
                   mWaitingForVsync, pendingRequests, nCalls, nVsyncCalls, lastCall,
                   lastEvent, nEvents, nArmed, raised, thrown, latest, inflight>>

CollectBuffer ==
    /\ bufferLive
    /\ bufferLive' = FALSE
    /\ lastOp' = [name |-> "collect"]
    /\ UNCHANGED <<mReceiverPtr, initCalled, disposed, observerLive, buffer, alive, strong,
                   mReceiverWeakGlobal, mVsyncEventDataWeakGlobal, registered,
                   mWaitingForVsync, pendingRequests, nCalls, nVsyncCalls, lastCall,
                   lastEvent, nEvents, nArmed, raised, thrown, latest, inflight>>

(***************************************************************************)
(* The specification.                                                      *)
(***************************************************************************)
Init ==
    /\ mReceiverPtr = 0
    /\ initCalled = FALSE
    /\ disposed = FALSE
    /\ observerLive = TRUE
    /\ bufferLive = TRUE
    /\ buffer = InitialBuffer
    /\ alive = FALSE
    /\ strong = 0
    /\ mReceiverWeakGlobal = FALSE
    /\ mVsyncEventDataWeakGlobal = FALSE
    /\ registered = FALSE
    /\ mWaitingForVsync = FALSE
    /\ pendingRequests = 0
    /\ nCalls = 0
    /\ nVsyncCalls = 0
    /\ lastCall = NoCall
    /\ lastEvent = NoEvent
    /\ nEvents = 0
    /\ nArmed = 0
    /\ lastOp = [name |-> "none"]
    /\ raised = NoException
    /\ thrown = "none"
    /\ latest = NoResult
    /\ inflight = NoEvent

Next ==
    \/ initialize
    \/ scheduleVsync
    \/ getLatestVsyncEventData
    \/ dispose
    \/ SourceVsync
    \/ SourceHotplug
    \/ SourceModeChanged
    \/ SourceFrameRateOverrides
    \/ SourceNullEvent
    \/ CollectObserver
    \/ CollectBuffer

Spec ==
    Init /\ [][Next]_vars

(***************************************************************************)
(* The dispatch loop step by step, for dispose() on another thread.  The   *)
(* loop holds a strong reference to the callback it is running: a dispatch *)
(* begins when the loop picks the registered callback for an event of the  *)
(* source and ends when the dispatch function has returned.                *)
(***************************************************************************)
\* the events of the source, each with the outcome of the observer's handler
LoopEvents ==
    UNION {
        [kind : {"Vsync"}, timestamp : Timestamps, displayId : DisplayIds, count : {1},
         vsyncEventData : RawVsyncEventData, throws : BOOLEAN],
        [kind : {"Hotplug"}, timestamp : Timestamps, displayId : DisplayIds,
         connected : BOOLEAN, throws : BOOLEAN],
        [kind : {"ModeChanged"}, timestamp : Timestamps, displayId : DisplayIds,
         modeId : {3}, renderPeriod : {8333333}, throws : BOOLEAN],
        [kind : {"FrameRateOverrides"}, timestamp : Timestamps, displayId : DisplayIds,
         overrides : OverrideVectors, throws : BOOLEAN],
        [kind : {"NullEvent"}, timestamp : Timestamps, displayId : DisplayIds,
         throws : {FALSE}] }

\* the loop thread picks the callback of a registered receiver for an event
BeginDispatch ==
    /\ initCalled
    /\ inflight = NoEvent
    /\ nEvents < MaxEvents
    /\ Dispatched
    /\ \E event \in LoopEvents :
           /\ (event.kind = "Vsync") => pendingRequests > 0
           /\ inflight' = event
           /\ pendingRequests' =
                  IF event.kind = "Vsync" THEN pendingRequests - 1 ELSE pendingRequests
    /\ strong' = strong + 1
    /\ lastOp' = [name |-> "begin"]
    /\ UNCHANGED <<mReceiverPtr, initCalled, disposed, observerLive, bufferLive, buffer,
                   alive, mReceiverWeakGlobal, mVsyncEventDataWeakGlobal, registered,
                   mWaitingForVsync, nCalls, nVsyncCalls, lastCall, lastEvent, nEvents,
                   nArmed, raised, thrown, latest>>

\* the dispatch function runs and returns; the loop drops its reference, which
\* destroys the receiver if it was the last one
EndDispatch ==
    /\ inflight # NoEvent
    /\ CASE inflight.kind = "Vsync" ->
               /\ mWaitingForVsync' = FALSE
               /\ dispatchVsync(inflight.timestamp, inflight.displayId, inflight.count,
                                inflight.vsyncEventData, inflight.throws)
         [] inflight.kind = "Hotplug" ->
               /\ UNCHANGED mWaitingForVsync
               /\ dispatchHotplug(inflight.timestamp, inflight.displayId,
                                  inflight.connected, inflight.throws)
         [] inflight.kind = "ModeChanged" ->
               /\ UNCHANGED mWaitingForVsync
               /\ dispatchModeChanged(inflight.timestamp, inflight.displayId,
                                      inflight.modeId, inflight.renderPeriod,
                                      inflight.throws)
         [] inflight.kind = "FrameRateOverrides" ->
               /\ UNCHANGED mWaitingForVsync
               /\ dispatchFrameRateOverrides(inflight.timestamp, inflight.displayId,
                                             inflight.overrides, inflight.throws)
         [] OTHER ->
               /\ UNCHANGED mWaitingForVsync
               /\ dispatchNullEvent(inflight.timestamp, inflight.displayId)
    /\ nEvents' = nEvents + 1
    /\ lastEvent' = [f \in (DOMAIN inflight \ {"throws"}) \cup
                             {"dispatched", "afterFailure"} |->
                         IF f = "afterFailure" THEN raised.exception
                         ELSE IF f = "dispatched" THEN TRUE
                         ELSE inflight[f]]
    /\ lastOp' = [name |-> "event"]
    /\ inflight' = NoEvent
    /\ strong' = strong - 1
    /\ LET refs == [mReceiverWeakGlobal |-> mReceiverWeakGlobal,
                    mVsyncEventDataWeakGlobal |-> mVsyncEventDataWeakGlobal]
       IN  IF strong - 1 > 0
           THEN UNCHANGED <<alive, mReceiverWeakGlobal, mVsyncEventDataWeakGlobal>>
           ELSE /\ alive' = FALSE
                /\ mReceiverWeakGlobal' = Destructor(refs).mReceiverWeakGlobal
                /\ mVsyncEventDataWeakGlobal' =
                       Destructor(refs).mVsyncEventDataWeakGlobal
    /\ UNCHANGED <<mReceiverPtr, initCalled, disposed, observerLive, bufferLive,
                   registered, pendingRequests, nArmed, thrown, latest>>

NextConcurrent ==
    \/ initialize
    \/ scheduleVsync
    \/ dispose
    \/ BeginDispatch
    \/ EndDispatch
    \/ CollectObserver
    \/ CollectBuffer

SpecConcurrent ==
    Init /\ [][NextConcurrent]_vars

(***************************************************************************)
(* Properties.                                                             *)
(***************************************************************************)
\* every variable except the record of the most recent operation
varsButLastOp ==
    <<mReceiverPtr, initCalled, disposed, observerLive, bufferLive, buffer, alive,
      strong, mReceiverWeakGlobal, mVsyncEventDataWeakGlobal, registered,
      mWaitingForVsync, pendingRequests, nCalls, nVsyncCalls, lastCall, lastEvent,
      nEvents, nArmed, raised, thrown, latest, inflight>>

\* the handler an event kind is delivered to
HandlerOf(kind) ==
    CASE kind = "Vsync" -> "onVsync"
      [] kind = "Hotplug" -> "onHotplug"
      [] kind = "ModeChanged" -> "onModeChanged"
      [] kind = "FrameRateOverrides" -> "onFrameRateOverrides"
      [] OTHER -> "none"

\* object obj carries raw payload raw, position by position
EncodesPayload(obj, raw) ==
    /\ obj.preferredFrameTimelineIndex = raw.preferredFrameTimelineIndex
    /\ obj.frameInterval = raw.frameInterval
    /\ DOMAIN obj.frameTimelines = TimelineIdx
    /\ \A i \in TimelineIdx :
           /\ obj.frameTimelines[i].vsyncId = raw.frameTimelines[i].vsyncId
           /\ obj.frameTimelines[i].expectedPresentationTime =
                  raw.frameTimelines[i].expectedPresentationTime
           /\ obj.frameTimelines[i].deadline = raw.frameTimelines[i].deadlineTimestamp

\* the step dispatches a vsync to the receiver's callback
VsyncDispatchStep ==
    /\ nEvents' # nEvents
    /\ lastEvent'.kind = "Vsync"
    /\ lastEvent'.dispatched

\* the lifecycle state of the receiver
ReceiverState ==
    IF registered \/ mReceiverPtr # 0 THEN "Initialized"
    ELSE IF disposed THEN "Disposed"
    ELSE IF initCalled THEN "Failed"
    ELSE "Created"

\* C1: once dispose() has returned, no observer handler is invoked for any event
\* that arrives afterwards.
C1_NoDeliveryAfterDispose ==
    [][disposed =>
          /\ nCalls' = nCalls
          /\ nVsyncCalls' = nVsyncCalls
          /\ (nEvents' # nEvents => lastCall' = NoCall)]_vars

\* an event arrived after dispose() at a receiver that had delivered before, its
\* observer still live
C1_Witness ==
    /\ disposed
    /\ nCalls > 0
    /\ observerLive
    /\ lastOp.name = "event"
    /\ lastEvent.kind = "Hotplug"
    /\ ~lastEvent.dispatched

\* C2: a dispatched event invokes the handler of its kind at most once, and only
\* if the observer reference resolves; with the observer expired the event is
\* dropped: no handler is invoked and nothing is raised or reported.
C2_AtMostOnceOnlyIfLive ==
    [][/\ nCalls' \in {nCalls, nCalls + 1}
       /\ (nCalls' # nCalls) =>
              /\ nEvents' = nEvents + 1
              /\ lastEvent'.dispatched
              /\ observerLive
              /\ lastCall'.kind = HandlerOf(lastEvent'.kind)
              /\ lastCall'.kind # "none"
       /\ (nEvents' # nEvents /\ lastCall' # NoCall) => nCalls' = nCalls + 1
       /\ (nEvents' # nEvents /\ ~observerLive) =>
              /\ nCalls' = nCalls
              /\ lastCall' = NoCall
              /\ raised' = NoException
              /\ thrown' = thrown]_vars

\* a mode-changed event was dispatched to a receiver whose observer had expired
\* after an earlier delivery
C2_Witness ==
    /\ lastOp.name = "event"
    /\ lastEvent.kind = "ModeChanged"
    /\ lastEvent.dispatched
    /\ ~observerLive
    /\ lastCall = NoCall
    /\ nCalls > 0

\* C3: a vsync dispatched while the observer reference is expired leaves every
\* field of the event-data buffer as it was and does not invoke onVsync.
C3_ExpiredObserverLeavesBuffer ==
    [][(VsyncDispatchStep /\ ~observerLive) =>
          /\ buffer' = buffer
          /\ nVsyncCalls' = nVsyncCalls
          /\ lastCall' = NoCall]_vars

\* a vsync was dispatched with the observer expired and the buffer live; the
\* buffer still holds the contents of an earlier delivery, not this payload
C3_Witness ==
    /\ lastOp.name = "event"
    /\ lastEvent.kind = "Vsync"
    /\ lastEvent.dispatched
    /\ ~observerLive
    /\ bufferLive
    /\ lastCall = NoCall
    /\ buffer # InitialBuffer
    /\ ~EncodesPayload(buffer, lastEvent.vsyncEventData)

\* C4: a vsync dispatched while the buffer reference is expired and the observer
\* is live does not invoke onVsync and is dropped silently.
C4_ExpiredBufferDropsVsync ==
    [][(VsyncDispatchStep /\ observerLive /\ ~bufferLive) =>
          /\ nCalls' = nCalls
          /\ nVsyncCalls' = nVsyncCalls
          /\ lastCall' = NoCall
          /\ raised' = NoException
          /\ thrown' = thrown]_vars

\* a vsync was dispatched with the observer live and was not delivered
C4_Witness ==
    /\ lastOp.name = "event"
    /\ lastEvent.kind = "Vsync"
    /\ lastEvent.dispatched
    /\ observerLive
    /\ ~bufferLive
    /\ lastCall = NoCall

\* C5: scheduleVsync() called while a request is armed changes nothing, and the
\* event source never holds more than one request: requests are not queued.
C5_ScheduleIdempotentWhileArmed ==
    /\ [][(mWaitingForVsync /\ mReceiverPtr # 0 /\ lastOp'.name = "scheduleVsync") =>
             UNCHANGED varsButLastOp]_vars
    /\ [](pendingRequests <= 1)

\* scheduleVsync() was called on an armed receiver
C5_Witness ==
    /\ lastOp.name = "scheduleVsync"
    /\ lastOp.handle = 1
    /\ lastOp.wasArmed
    /\ mWaitingForVsync
    /\ pendingRequests = 1
    /\ nArmed = 1

\* C6: no auto-rearm: onVsync is never invoked more often than the receiver was
\* armed; a delivery happens only to an armed receiver and disarms it; and only
\* scheduleVsync() arms.
C6_NoAutoRearm ==
    /\ [](nVsyncCalls <= nArmed)
    /\ [][(nVsyncCalls' # nVsyncCalls) =>
             /\ nVsyncCalls' = nVsyncCalls + 1
             /\ mWaitingForVsync
             /\ ~mWaitingForVsync'
             /\ pendingRequests' = 0]_vars
    /\ [][(~mWaitingForVsync /\ mWaitingForVsync') => lastOp'.name = "scheduleVsync"]_vars

\* two vsyncs were delivered, each after its own arming
C6_Witness ==
    /\ nVsyncCalls = 2
    /\ nArmed = 2
    /\ ~mWaitingForVsync
    /\ lastCall.kind = "onVsync"

\* C7: the encoding of a raw vsync payload preserves positions and carries the
\* index and the frame interval through, in the buffer filled by a dispatch and
\* in the object built by getLatestVsyncEventData.
C7_EncodingPreservesPositions ==
    /\ (lastCall.kind = "onVsync") =>
           EncodesPayload(lastCall.data, lastEvent.vsyncEventData)
    /\ (lastOp.name = "getLatestVsyncEventData" /\ lastOp.status = OK) =>
           /\ latest.obj \notin {JNull.obj, NoResult.obj}
           /\ EncodesPayload(latest, lastOp.data)

\* a payload with descending timelines was delivered and a query answered
C7_Witness ==
    /\ lastCall.kind = "onVsync"
    /\ lastEvent.vsyncEventData.frameTimelines[0].vsyncId >
           lastEvent.vsyncEventData.frameTimelines[kFrameTimelinesLength - 1].vsyncId
    /\ lastOp.name = "getLatestVsyncEventData"
    /\ lastOp.status = OK
    /\ lastOp.data.frameTimelines[0].vsyncId <
           lastOp.data.frameTimelines[kFrameTimelinesLength - 1].vsyncId

\* C8 as stated: after a delivered vsync dispatch the buffer's index satisfies
\* 0 <= index < N and all N entries come from that payload, whatever the payload.
C8_IndexInRangeWhateverPayload ==
    (lastCall.kind = "onVsync") =>
        /\ buffer.preferredFrameTimelineIndex \in TimelineIdx
        /\ \A i \in TimelineIdx :
               buffer.frameTimelines[i].vsyncId =
                   lastEvent.vsyncEventData.frameTimelines[i].vsyncId

\* C8 amended: after a delivered vsync dispatch all N entries of the buffer come
\* from that dispatch's payload and the buffer's index is the payload's index, so
\* it satisfies 0 <= index < N whenever the payload's index does.
C8_FullyPopulatedIndexCarried ==
    (lastCall.kind = "onVsync") =>
        LET raw == lastEvent.vsyncEventData
        IN  /\ DOMAIN buffer.frameTimelines = TimelineIdx
            /\ \A i \in TimelineIdx :
                   /\ buffer.frameTimelines[i].vsyncId = raw.frameTimelines[i].vsyncId
                   /\ buffer.frameTimelines[i].expectedPresentationTime =
                          raw.frameTimelines[i].expectedPresentationTime
                   /\ buffer.frameTimelines[i].deadline =
                          raw.frameTimelines[i].deadlineTimestamp
            /\ buffer.preferredFrameTimelineIndex = raw.preferredFrameTimelineIndex
            /\ (raw.preferredFrameTimelineIndex \in TimelineIdx) =>
                   (buffer.preferredFrameTimelineIndex \in TimelineIdx)

\* a second vsync was delivered over the contents of the first, its payload's
\* index in range and its timelines descending
C8_Witness ==
    /\ lastCall.kind = "onVsync"
    /\ nVsyncCalls = 2
    /\ lastEvent.vsyncEventData.preferredFrameTimelineIndex = kFrameTimelinesLength - 1
    /\ lastEvent.vsyncEventData.frameTimelines[0].vsyncId >
           lastEvent.vsyncEventData.frameTimelines[kFrameTimelinesLength - 1].vsyncId

\* C9: a delivered frame-rate-overrides dispatch hands the observer an array,
\* never null, whose length is the number of overrides of the event and whose
\* i-th element carries the i-th override's owner id and frame rate.
C9_OverridesArrayExact ==
    (lastCall.kind = "onFrameRateOverrides") =>
        LET array == lastCall.overrides
            overrides == lastEvent.overrides
        IN  /\ array.obj # JNull.obj
            /\ DOMAIN array.elems = 0 .. (Len(overrides) - 1)
            /\ \A i \in DOMAIN array.elems :
                   /\ array.elems[i].uid = overrides[i + 1].uid
                   /\ array.elems[i].frameRateHz = overrides[i + 1].frameRateHz

\* MaxOverrides overrides in descending order of owner were delivered
C9_Witness ==
    /\ lastCall.kind = "onFrameRateOverrides"
    /\ Len(lastEvent.overrides) = MaxOverrides
    /\ lastEvent.overrides[1].uid > lastEvent.overrides[MaxOverrides].uid

\* C10: Disposed is terminal and dispose() is idempotent: once dispose() has
\* returned the receiver is and stays Disposed, no handler is invoked, and a
\* further dispose() changes nothing and reports nothing.
C10_DisposedTerminalIdempotent ==
    /\ [](disposed => ReceiverState = "Disposed")
    /\ [][disposed =>
             /\ disposed'
             /\ nCalls' = nCalls
             /\ (lastOp'.name = "dispose") => UNCHANGED varsButLastOp]_vars

\* dispose() was called again on a disposed receiver that had delivered before
C10_Witness ==
    /\ lastOp = [name |-> "dispose", wasDisposed |-> TRUE]
    /\ nCalls > 0
    /\ ReceiverState = "Disposed"

\* C11: when initialization fails (the message queue is missing or the event
\* source rejects the registration) nativeInit reports an error and returns 0,
\* no reference to the native receiver is retained, and no handler is ever
\* invoked through that instance.
C11_FailedInitLeavesNothing ==
    [][/\ (/\ lastOp'.name = "initialize"
           /\ (lastOp'.messageQueue = NULL \/ lastOp'.status # OK))
          => /\ thrown' # "none"
             /\ mReceiverPtr' = 0
             /\ strong' = 0
             /\ ~alive'
             /\ ~registered'
       /\ (ReceiverState = "Failed")
          => /\ ReceiverState' \in {"Failed", "Disposed"}
             /\ nCalls' = nCalls
             /\ lastCall' = NoCall]_vars

\* the source rejected the registration; an event arrived afterwards while the
\* observer was live and reached no handler
C11_Witness ==
    /\ ReceiverState = "Failed"
    /\ thrown = "Failed to initialize display event receiver."
    /\ lastOp.name = "event"
    /\ lastEvent.kind = "Hotplug"
    /\ observerLive
    /\ nCalls = 0

\* C12: when the event source rejects a scheduleVsync() request the failure is
\* reported to the caller and the receiver's lifecycle and armed state are as
\* before; a later scheduleVsync() that the source accepts arms the delivery of
\* one vsync.
C12_RejectedScheduleReportedAndHarmless ==
    [][(lastOp'.name = "scheduleVsync" /\ lastOp'.handle # 0 /\ ~lastOp'.wasArmed) =>
          IF lastOp'.rejected
          THEN /\ thrown' = "Failed to schedule next vertical sync pulse."
               /\ ReceiverState' = ReceiverState
               /\ UNCHANGED <<mReceiverPtr, registered, alive, strong, disposed,
                              mWaitingForVsync, pendingRequests, nArmed>>
          ELSE /\ thrown' = "none"
               /\ ReceiverState' = ReceiverState
               /\ mWaitingForVsync'
               /\ pendingRequests' = pendingRequests + 1
               /\ pendingRequests' = 1
               /\ nArmed' = nArmed + 1]_vars

\* the source accepted a request made right after one it had rejected
C12_Witness ==
    /\ lastOp.name = "scheduleVsync"
    /\ lastOp.handle # 0
    /\ ~lastOp.rejected
    /\ lastOp.thrownBefore = "Failed to schedule next vertical sync pulse."
    /\ thrown = "none"
    /\ mWaitingForVsync
    /\ pendingRequests = 1
    /\ nArmed = 1

DispatchStep ==
    /\ nEvents' # nEvents
    /\ lastEvent'.dispatched

\* C14: when the observer's handler fails during a dispatch the failure is handed
\* to the owner of the loop by that same dispatch (and nothing is handed over
\* when it does not fail); the lifecycle and the armed state after the dispatch
\* do not depend on whether the handler failed; and an earlier failure does not
\* keep a later event from being delivered to a live observer.
C14_HandlerFailureRaisedNotAbsorbed ==
    [][DispatchStep =>
          /\ raised'.exception = (lastCall' # NoCall /\ lastCall'.threw)
          /\ ReceiverState' = ReceiverState
          /\ UNCHANGED <<mReceiverPtr, registered, alive, strong, disposed, nArmed,
                         thrown>>
          /\ mWaitingForVsync' =
                 (IF lastEvent'.kind = "Vsync" THEN FALSE ELSE mWaitingForVsync)
          /\ (/\ lastEvent'.kind # "NullEvent"
              /\ observerLive
              /\ (lastEvent'.kind = "Vsync" => bufferLive))
             => lastCall'.kind = HandlerOf(lastEvent'.kind)]_vars

\* a vsync was delivered to the observer right after a dispatch whose handler had
\* failed, and its handler failed as well
C14_Witness ==
    /\ lastOp.name = "event"
    /\ lastEvent.afterFailure
    /\ lastEvent.kind = "Vsync"
    /\ lastCall.kind = "onVsync"
    /\ lastCall.threw
    /\ raised.exception
    /\ raised.msg = "dispatchVsync"
    /\ ~mWaitingForVsync
    /\ registered

SameBufferObjects(obj) ==
    /\ obj.obj = InitialBuffer.obj
    /\ obj.arrayObj = InitialBuffer.arrayObj
    /\ DOMAIN obj.frameTimelines = TimelineIdx
    /\ \A i \in TimelineIdx :
           obj.frameTimelines[i].obj = InitialBuffer.frameTimelines[i].obj

\* C16: a vsync dispatch mutates the shared buffer in place: the buffer object,
\* its frameTimelines array and each timeline object are the objects they were
\* before any dispatch, and they are what the handler is given.
C16_BufferMutatedInPlace ==
    /\ SameBufferObjects(buffer)
    /\ (lastCall.kind = "onVsync") => SameBufferObjects(lastCall.data)

\* two vsyncs were delivered and the fields of the buffer no longer hold the
\* values the owning domain constructed it with
C16_Witness ==
    /\ nVsyncCalls = 2
    /\ lastCall.kind = "onVsync"
    /\ buffer.frameInterval # InitialBuffer.frameInterval
    /\ \A i \in TimelineIdx :
           buffer.frameTimelines[i].vsyncId # InitialBuffer.frameTimelines[i].vsyncId

\* C17: when onVsync is invoked the buffer is completely written: what the
\* handler sees in it is the encoding of that event's payload, nothing is
\* written to it after the call, and the handler is given the event's
\* timestamp, display id and pulse count as they arrived.
C17_BufferWrittenBeforeOnVsync ==
    (lastCall.kind = "onVsync") =>
        /\ lastEvent.kind = "Vsync"
        /\ EncodesPayload(lastCall.data, lastEvent.vsyncEventData)
        /\ lastCall.data = buffer
        /\ lastCall.timestamp = lastEvent.timestamp
        /\ lastCall.displayId = lastEvent.displayId
        /\ lastCall.count = lastEvent.count

\* the second of two delivered vsyncs carried a descending payload with the
\* index one past the last entry, and its handler returned normally
C17_Witness ==
    /\ lastCall.kind = "onVsync"
    /\ ~lastCall.threw
    /\ nVsyncCalls = 2
    /\ lastCall.timestamp \in Timestamps
    /\ lastEvent.vsyncEventData.preferredFrameTimelineIndex = kFrameTimelinesLength
    /\ lastCall.data.frameTimelines[0].vsyncId =
           RawTimeline(kFrameTimelinesLength - 1).vsyncId

\* C18: the elements of a delivered override array are pairwise distinct
\* objects, and none of them is the template object the array was created with
\* (nor the array itself).
C18_OverrideElementsDistinct ==
    (lastCall.kind = "onFrameRateOverrides") =>
        LET elems == lastCall.overrides.elems
            template == NewFrameRateOverride(200, 0, 0)
        IN  /\ \A i, j \in DOMAIN elems : (i # j) => elems[i].obj # elems[j].obj
            /\ \A i \in DOMAIN elems :
                   /\ elems[i].obj # template.obj
                   /\ elems[i].obj # lastCall.overrides.obj

\* an array of MaxOverrides elements in ascending order of owner was delivered
C18_Witness ==
    /\ lastCall.kind = "onFrameRateOverrides"
    /\ Len(lastEvent.overrides) = MaxOverrides
    /\ DOMAIN lastCall.overrides.elems = 0 .. (MaxOverrides - 1)
    /\ lastCall.overrides.elems[0].uid < lastCall.overrides.elems[MaxOverrides - 1].uid

\* C19: the dispatch of a null event does nothing: no handler is invoked,
\* nothing is handed to the loop's owner, and buffer, lifecycle, armed state
\* and pending requests are as before.
C19_NullEventNoOp ==
    [][(DispatchStep /\ lastEvent'.kind = "NullEvent") =>
          /\ lastCall' = NoCall
          /\ raised' = NoException
          /\ ReceiverState' = ReceiverState
          /\ UNCHANGED <<nCalls, nVsyncCalls, buffer, mReceiverPtr, registered, alive,
                         strong, disposed, mWaitingForVsync, pendingRequests, nArmed,
                         observerLive, bufferLive, thrown, latest>>]_vars

\* a null event was dispatched at an armed receiver with live observer and live
\* buffer, after a delivered vsync whose handler had failed
C19_Witness ==
    /\ lastOp.name = "event"
    /\ lastEvent.kind = "NullEvent"
    /\ lastEvent.dispatched
    /\ lastEvent.afterFailure
    /\ observerLive
    /\ bufferLive
    /\ mWaitingForVsync
    /\ nVsyncCalls = 1
    /\ lastCall = NoCall
    /\ raised = NoException

\* C20: the dispatch of a hotplug, mode-changed or frame-rate-override event
\* depends on the observer reference only: it invokes the event's handler
\* exactly when the observer is live, whether or not the event-data buffer
\* reference has expired, and it never modifies the buffer.
C20_NonVsyncIgnoresBuffer ==
    [][(/\ DispatchStep
        /\ lastEvent'.kind \in {"Hotplug", "ModeChanged", "FrameRateOverrides"}) =>
          /\ buffer' = buffer
          /\ nVsyncCalls' = nVsyncCalls
          /\ IF observerLive
             THEN /\ lastCall'.kind = HandlerOf(lastEvent'.kind)
                  /\ nCalls' = nCalls + 1
             ELSE /\ lastCall' = NoCall
                  /\ nCalls' = nCalls]_vars

\* a mode change was delivered to a live observer after the buffer reference had
\* expired, the buffer holding the data of an earlier vsync
C20_Witness ==
    /\ lastOp.name = "event"
    /\ lastEvent.kind = "ModeChanged"
    /\ lastCall.kind = "onModeChanged"
    /\ observerLive
    /\ ~bufferLive
    /\ nVsyncCalls = 1
    /\ buffer # InitialBuffer

\* C21: every global reference the receiver creates at construction (one for the
\* observer weak handle, one for the event-data buffer weak handle) is released
\* when the receiver is destroyed: a receiver that does not exist holds no
\* outstanding global reference.
C21_NoGlobalRefAfterDestruction ==
    (~alive) =>
        /\ ~mReceiverWeakGlobal
        /\ ~mVsyncEventDataWeakGlobal

\* a receiver that had delivered a vsync was destroyed by dispose(): the observer
\* handle's global reference is released, the buffer handle's is outstanding
C21_Witness ==
    /\ disposed
    /\ lastOp.name = "dispose"
    /\ ~lastOp.wasDisposed
    /\ nVsyncCalls > 0
    /\ ~alive
    /\ strong = 0
    /\ ~mReceiverWeakGlobal
    /\ mVsyncEventDataWeakGlobal

====
